---- MODULE Spec2Model ----
(***************************************************************************)
(* The binding / call bridge of webview::Webview (engine_base.h,           *)
(* engine_base.inl, engine_base.cpp) over the Win32 dispatch loop of       *)
(* Win32EdgeEngine (win32_edge.cpp).                                       *)
(*                                                                         *)
(* Threads.  The dispatch thread runs the message loop: dispatched tasks   *)
(* (WM_APP), OnMessage, the API calls Bind / Unbind, and the final         *)
(* teardown (CleanPromises and the join in ~PromisesCleaner).  Other       *)
(* threads complete asynchronous handlers and issue Call.                  *)
(*                                                                         *)
(* The promise library (promise/promise.h) is outside the repository; a    *)
(* promise is modelled by its state, settled by the first resolve or       *)
(* reject that reaches it.                                                 *)
(***************************************************************************)
EXTENDS Integers, Sequences, FiniteSets, Bags, TLC

(* ------------------------------ bounds --------------------------------- *)
\* the largest number of outbound calls, and of inbound calls, of a run
MaxCalls == 2
MaxIn == 2
\* the inputs of each specification: calls, inbound calls, other messages of
\* this page, messages of a foreign nonce, Bind / Unbind / Init calls; a
\* total caps the inputs of one run, MixEach those of each kind
CallRunCalls == 2
CallRunMsgs == 2
CallRunForeign == 1
BindRunIn == 1
BindRunBinds == 2
BindRunMsgs == 1
BindRunTotal == 4
ScriptRunOps == 3
ScriptRunIn == 1
DupRunIn == 2
RaceRunCalls == 2
RaceRunMsgs == 1
ThreadRunOps == 2
ThreadRunCalls == 1
ThreadRunIn == 1
AnswerRunCalls == 2
AnswerRunMsgs == 2
ServeRunIn == 1
ServeRunBinds == 1
RebindRunIn == 1
RebindRunBinds == 3
WindowRunWindows == 3
CountRunOps == 6
PumpRunTasks == 2
MixEach == 1
MixTotal == 4
LiveIn == 2
LiveBinds == 1

(* --------------------------- input domains ----------------------------- *)
\* Webview2ComHandler::max_attempts_
max_attempts_ == 5
\* the windows the process may create
Windows == 1..WindowRunWindows
\* std::atomic_uint counts modulo a power of two; the width kept here is 16
\* bits, which wraps below zero as 32 bits do
UintMod == 65536
Names == {"add", "mul"}
Handlers == {"h_add", "h_mul"}
NoBinding == "unbound"
Nonces == {"n1", "n2"}
CallIds == 1..MaxCalls
InIds == 1..MaxIn
RetTypes == {"void", "int"}
\* the threads that may be inside Call at the same time
Threads == {"t1", "t2"}
NoLoad == -1
\* the wire forms of a reverse reply's result field
Results == {"12", "oops", "absent"}
\* the wire forms of a forward call's params field
ParamForms == {"[2,3]", "[3,4]", "bad"}

VARIABLES
  nonce_,             \* Webview::nonce_
  bindings_,          \* Webview::bindings_ : name -> handler, or NoBinding
  reverse_bindings_,  \* Webview::reverse_bindings_ : the ids with a completion
  promises_,          \* Webview::promises_ is non-null
  handles_,           \* Promises::handles_ : key -> Cleaner
  next_id_,           \* Webview::next_id_
  queue,              \* tasks posted to the message window (WM_APP), in order
  dpc,                \* what the dispatch thread is inside of
  rep,                \* the ReplaceBindScript in progress
  user_scripts_,      \* Webview::user_scripts_
  bind_script_,       \* Webview::bind_script_ : position in user_scripts_, 0 = null
  engine,             \* the browser engine: injected script ids, id counter
  evals,              \* bag of the scripts given to Eval
  outcall,            \* per outbound id: the promise of Call
  incall,             \* per inbound id: the handler's computation
  cleaner,            \* the PromisesCleaner and its drain coroutine
  thrown,             \* the exception the most recent API call threw
  budget,             \* remaining inputs of the environment
  callers,            \* per thread inside Call: the next_id_ it has read
  fault,              \* undefined behaviour / failed assertions met so far
  halted,             \* the process has crashed
  com_handler_,       \* Win32EdgeEngine::com_handler_, the Webview2ComHandler
  windows,            \* the windows of the process and Webview::WindowRefCount()
  pump                \* the message window, its queue and DepleteRunLoopEventQueue

vars == <<nonce_, bindings_, reverse_bindings_, promises_, handles_, next_id_,
          queue, dpc, rep, user_scripts_, bind_script_, engine, evals,
          outcall, incall, cleaner, thrown, budget, callers, fault, halted,
          com_handler_, windows, pump>>

bridge == <<bindings_, reverse_bindings_, promises_, handles_>>
platform == <<com_handler_, windows, pump>>
webview == <<nonce_, bridge, next_id_, queue, dpc, rep, user_scripts_, bind_script_,
             engine, evals, outcall, incall, cleaner, thrown, budget, callers,
             fault, halted>>
scripts == <<user_scripts_, bind_script_, engine, rep>>

(* ------------------------------ helpers -------------------------------- *)
NoKey == <<"none", 0>>
BindKey(id) == <<"bind", id>>
CallKey(id) == <<"call", id>>

Task(k, i, hh, e, r) == [kind |-> k, id |-> i, h |-> hh, err |-> e, res |-> r]

NoThrow == [op |-> "none", name |-> "none", error |-> "none"]
Thrown(o, n, e) == [op |-> o, name |-> n, error |-> e]

NoRep == [op |-> "none", name |-> "none", i |-> 0, ptr |-> 0, kind |-> "none", code |-> {}]

\* a call whose flag 'done' starts set
NoOutDone == [st |-> "none", err |-> "none", val |-> "none", ret |-> "void",
              done |-> TRUE, settles |-> 0, attempts |-> 0, thrown |-> "none"]

\* an id no call has taken: a promise not made, 'done' as Call creates it
NoOut == [st |-> "none", err |-> "none", val |-> "none", ret |-> "void",
          done |-> FALSE, settles |-> 0, attempts |-> 0, thrown |-> "none"]
\* bound: the binding OnMessage found for the call; late: the entry of the
\* registry under the method when the task of the call ran
NoIn == [phase |-> "none", h |-> "none", method |-> "none", invoked |-> 0,
         outcome |-> "none", args |-> "none", id |-> 0, bound |-> "none",
         late |-> "none"]
NoCleaner == [st |-> "none", todo |-> {}, awaiting |-> NoKey, inst |-> 0,
              done_ |-> FALSE, joining |-> FALSE, destroyed |-> FALSE]

\* what a step of undefined behaviour may do to the process: kill it or not
UBOutcomes == BOOLEAN


(* ----------------------- js::Parse / js::Stringify --------------------- *)
\* a parser that takes any text for a pair of numbers
ParseArgsLax(form) == [ok |-> TRUE, a |-> 0, b |-> 0]

\* js::Parse<args_t>(js_args): a JSON array of two numbers, else it throws
ParseArgs(form) ==
  CASE form = "[2,3]" -> [ok |-> TRUE, a |-> 2, b |-> 3]
    [] form = "[3,4]" -> [ok |-> TRUE, a |-> 3, b |-> 4]
    [] OTHER -> [ok |-> FALSE, a |-> 0, b |-> 0]

\* a parser that reads every text as 0
ParseIntZero(form) == [ok |-> TRUE, v |-> 0]

\* js::Parse<int>(result): a JSON number, else it throws
ParseInt(form) ==
  IF form = "12" THEN [ok |-> TRUE, v |-> 12] ELSE [ok |-> FALSE, v |-> 0]

\* js::Stringify of a number: its decimal form
Stringify(n) == ToString(n)

\* a handler that returns its first argument
ApplyFirst(h, a, b) == a

\* the bound function behind a handler
Apply(h, a, b) == IF h = "h_add" THEN a + b ELSE a * b

(* ------------------------------ Eval / Dispatch ------------------------ *)
Ev(fn, id, name, err, res) ==
  [fn |-> fn, id |-> id, name |-> name, err |-> err, res |-> res, nonce |-> nonce_]

\* Win32EdgeEngine::Eval: the script is handed to the page
Eval(bag, e) == bag (+) SetToBag({e})

\* Win32EdgeEngine::Dispatch: PostMessageW(message_window_, WM_APP, ...)
Dispatch(q, t) == Append(q, t)

\* the onReply evaluation every reply task makes
ReplyTask(id, err, res) == Task("reply", id, "none", err, res)

EmptyMap == [x \in {} |-> 0]
Erase(f, k) == [x \in DOMAIN f \ {k} |-> f[x]]
Emplace(f, k, v) == IF k \in DOMAIN f THEN f ELSE f @@ (k :> v)

\* promise::Resolve / promise::Reject on a promise of Call: the first settles it
Settle(o, st, err, val) ==
  IF o.st = "pending"
  THEN [o EXCEPT !.st = st, !.err = err, !.val = val,
                 !.settles = @ + 1, !.attempts = @ + 1]
  ELSE [o EXCEPT !.attempts = @ + 1]

\* Promises::Cleaner::await_ready on a handle of the table
PromiseDone(k, out, inc) ==
  IF k[1] = "call" THEN out[k[2]].st # "pending"
  ELSE inc[handles_[k].inst].phase = "done"

LoopRuns == ~halted /\ dpc \in {"idle", "replace"}
ThreadFree == ~halted /\ dpc = "idle"
TaskReady(kind) == LoopRuns /\ queue # <<>> /\ Head(queue).kind = kind

(* -------------------------------- Init --------------------------------- *)
\* a window not created yet
NoWindow == [pc |-> "none", skip |-> FALSE, terminated |-> FALSE]

\* no window created, WindowRefCount() at its initial 0, no thread inside
\* DecWindowCount
NoWindows == [s__ref_count |-> 0, incs |-> 0, decs |-> 0,
              of |-> [w \in Windows |-> NoWindow],
              terminate |-> 0, on_terminate |-> 0,
              reg |-> [t \in Threads |-> "idle"]]

\* the message window as created, nothing posted, nobody pumping
NoPump == [message_window_ |-> TRUE, q |-> <<>>, quit |-> FALSE, done |-> FALSE,
           pc |-> "out", ran |-> <<>>, before |-> {}, next |-> 1, lost |-> {}]

\* Webview2ComHandler as constructed: no window, no attempt made
NoCom == [window_ |-> FALSE, attempts_ |-> 0, calls |-> 0, pending |-> "none",
          gave_up |-> 0, ready |-> 0, log |-> <<>>]

\* the window after Win32EdgeEngine's constructor: the bootstrap script added
\* by AddInitScript, no binding, an empty pending-call table
Budget(c, i, m, f, b, t) ==
  [calls |-> c, ins |-> i, msgs |-> m, foreign |-> f, binds |-> b, total |-> t]

\* one input of the given kind is taken from the environment's supply
Take(kind) ==
  /\ budget.total > 0
  /\ budget[kind] > 0
  /\ budget' = [budget EXCEPT ![kind] = @ - 1, !.total = @ - 1]

InitWith(b) ==
  /\ nonce_ = "n1"
  /\ bindings_ = [n \in Names |-> NoBinding]
  /\ reverse_bindings_ = {}
  /\ promises_ = TRUE
  /\ handles_ = EmptyMap
  /\ next_id_ = 0
  /\ queue = <<>>
  /\ dpc = "idle"
  /\ rep = NoRep
  /\ user_scripts_ = <<[id |-> 1, kind |-> "init", names |-> {}]>>
  /\ bind_script_ = 0
  /\ engine = [ids |-> {1}, next |-> 2]
  /\ evals = EmptyBag
  /\ outcall = [i \in CallIds |-> NoOut]
  /\ incall = [i \in InIds |-> NoIn]
  /\ cleaner = NoCleaner
  /\ thrown = NoThrow
  /\ budget = b
  /\ callers = [t \in Threads |-> NoLoad]
  /\ fault = {}
  /\ halted = FALSE
  /\ com_handler_ = NoCom
  /\ windows = NoWindows
  /\ pump = NoPump


(* ------------------------------ OnMessage ------------------------------ *)
\* the messages the page can post: forward calls, reverse replies, and text
\* that js::Parse<Message> rejects
ForwardMsgs ==
  [shape : {"forward"}, nonce : Nonces, id : InIds, method : Names,
   params : ParamForms, error : {FALSE}, result : {"absent"}]
\* the forward calls with one pair of arguments, or with params that do not
\* decode
PairMsgs == {m \in ForwardMsgs : m.params \in {"[2,3]", "bad"}}
ReverseMsgs ==
  [shape : {"reverse"}, nonce : Nonces, id : CallIds, method : {"mul"},
   params : {"bad"}, error : BOOLEAN, result : Results]
MalformedMsgs ==
  [shape : {"malformed"}, nonce : {"n1"}, id : {1}, method : {"add"},
   params : {"bad"}, error : {FALSE}, result : {"absent"}]

\* an exception leaves OnMessage through the WebMessageReceived callback
OnMessageThrows(m, what) ==
  /\ fault' = fault \cup {what}
  /\ halted' \in UBOutcomes
  /\ UNCHANGED <<bridge, queue, incall>>

\* a check_header that lets every nonce through
CheckHeaderAny(m) == m.nonce \in Nonces

\* check_header: the nonce of the message against nonce_
CheckHeader(m) == m.nonce = nonce_

\* the inbound calls are numbered as OnMessage accepts them; the id a call
\* carries is the one the page chose
NextIn == Cardinality({i \in InIds : incall[i].phase # "none"}) + 1

\* OnMessage, ReplyMessage alternative: look the binding up, dispatch the call
OnForward(m) ==
  IF ~CheckHeader(m)
  THEN UNCHANGED <<bridge, queue, incall, fault, halted>>
  ELSE IF bindings_[m.method] = NoBinding
  THEN OnMessageThrows(m, "out_of_range")
  ELSE /\ queue' = Dispatch(queue, Task("bind_call", NextIn, bindings_[m.method],
                                        FALSE, m.params))
       /\ incall' = [incall EXCEPT ![NextIn] =
                       [NoIn EXCEPT !.phase = "queued", !.method = m.method,
                                    !.args = m.params, !.id = m.id,
                                    !.bound = bindings_[m.method]]]
       /\ UNCHANGED <<bridge, fault, halted>>

\* a lookup that finds a completion under every id
FindAny(id) == id \in CallIds

\* reverse_bindings_.find(id) != reverse_bindings_.end()
Find(id) == id \in reverse_bindings_

\* OnMessage, ReverseMessage alternative: consume the reverse binding
OnReverse(m) ==
  IF CheckHeader(m) /\ Find(m.id)
  THEN /\ reverse_bindings_' = reverse_bindings_ \ {m.id}
       /\ queue' = Dispatch(queue, Task("make_reply", m.id, "none", m.error,
                                        IF m.result = "absent" THEN "" ELSE m.result))
       /\ UNCHANGED <<bindings_, promises_, handles_, incall, fault, halted>>
  ELSE UNCHANGED <<bridge, queue, incall, fault, halted>>

\* the page of this window draws a fresh id for each call it makes; a
\* message of another window (a foreign nonce) may carry any id
FreshIn(m) == m.nonce = nonce_ => m.id = NextIn

\* the environment's supply of messages: forward calls of this page are
\* bounded by their ids, the others by a budget
Spend(m) ==
  IF m.nonce # nonce_ THEN Take("foreign")
  ELSE IF m.shape = "forward" THEN Take("ins")
  ELSE Take("msgs")

OnMessage(m) ==
  /\ LoopRuns
  /\ Spend(m)
  /\ CASE m.shape = "forward" -> OnForward(m)
       [] m.shape = "reverse" -> OnReverse(m)
       [] OTHER -> OnMessageThrows(m, "parse_error")
  /\ UNCHANGED <<nonce_, platform, callers, next_id_, dpc, scripts, evals, outcall, cleaner, thrown>>

(* ------------------------- inbound call tasks -------------------------- *)
\* a task that looks the binding up when it runs
CreatePromiseLate(t) == bindings_[incall[t.id].method]

\* (*create_promise)(id, params): the binding the task captured, a copy of
\* the shared_ptr OnMessage found in bindings_
CreatePromise(t) == t.h

HandlerModes == {"sync_ok", "sync_raise", "async"}

\* the replies MakeWrapper's continuations dispatch when the handler is done
HandlerReply(id, h, form, ok) ==
  IF ok THEN ReplyTask(id, FALSE,
                       Stringify(Apply(h, ParseArgs(form).a, ParseArgs(form).b)))
  ELSE ReplyTask(id, TRUE, "exception")

\* a wrapper whose continuations post nothing to the loop
WrapperDoneNoPost(q, id, h, form, ok) == q

\* a wrapper that posts the cleanup ahead of the reply
WrapperDoneCleanupFirst(q, id, h, form, ok) ==
  Dispatch(Dispatch(q, Task("cleanup_bind", id, "none", FALSE, "none")),
           HandlerReply(id, h, form, ok))

\* MakeWrapper: what the completion of the handler dispatches, reply first
WrapperDone(q, id, h, form, ok) ==
  Dispatch(Dispatch(q, HandlerReply(id, h, form, ok)),
           Task("cleanup_bind", id, "none", FALSE, "none"))

\* a binding lambda that never looks at promises_
TerminatedNever == FALSE

\* the binding lambda, "if (!promises_)": the bridge has begun shutdown
Terminated == ~promises_

\* the binding lambda of Bind, run as a dispatched task
RunBindCall ==
  /\ TaskReady("bind_call")
  /\ LET t == Head(queue)
         q == Tail(queue)
         pid == incall[t.id].id
     IN IF Terminated
        THEN /\ queue' = Dispatch(q, ReplyTask(pid, TRUE, "Terminated webview !"))
             /\ incall' = [incall EXCEPT ![t.id].phase = "done",
                                         ![t.id].outcome = "terminated"]
             /\ UNCHANGED <<handles_, fault, halted>>
        ELSE IF ~ParseArgs(t.res).ok
        THEN /\ queue' = Dispatch(q, ReplyTask(pid, TRUE, "exception"))
             /\ incall' = [incall EXCEPT ![t.id].phase = "done",
                                         ![t.id].outcome = "bad_args"]
             /\ UNCHANGED <<handles_, fault, halted>>
        ELSE \E mode \in HandlerModes :
             /\ incall' = [incall EXCEPT
                             ![t.id].h = CreatePromise(t),
                             ![t.id].late = bindings_[incall[t.id].method],
                             ![t.id].invoked = @ + 1,
                             ![t.id].phase = IF mode = "async" THEN "running" ELSE "done",
                             ![t.id].outcome = CASE mode = "sync_ok" -> "ok"
                                                 [] mode = "sync_raise" -> "raised"
                                                 [] OTHER -> "none"]
             /\ queue' = IF mode = "async" THEN q
                         ELSE WrapperDone(q, pid, CreatePromise(t), t.res,
                                          mode = "sync_ok")
             /\ IF BindKey(pid) \in DOMAIN handles_
                THEN /\ fault' = fault \cup {"not_emplaced"}
                     /\ halted' \in UBOutcomes
                     /\ UNCHANGED handles_
                ELSE /\ handles_' = Emplace(handles_, BindKey(pid),
                                            [reject |-> FALSE, inst |-> t.id])
                     /\ UNCHANGED <<fault, halted>>
  /\ UNCHANGED <<nonce_, platform, callers, bindings_, reverse_bindings_, promises_, next_id_, dpc,
                 scripts, evals, outcall, cleaner, thrown, budget>>

\* a reply task: Eval of window.__webview__.onReply(id, error, result, nonce)
RunReply ==
  /\ TaskReady("reply")
  /\ LET t == Head(queue)
     IN evals' = Eval(evals, Ev("onReply", t.id, "none", t.err, t.res))
  /\ queue' = Tail(queue)
  /\ UNCHANGED <<nonce_, platform, callers, bridge, next_id_, dpc, scripts, outcall, incall, cleaner,
                 thrown, budget, fault, halted>>

\* the cleanup task MakeWrapper dispatches: erase "bind_" + id
RunCleanupBind ==
  /\ TaskReady("cleanup_bind")
  /\ queue' = Tail(queue)
  /\ LET k == BindKey(Head(queue).id)
     IN IF ~promises_
        THEN /\ fault' = fault \cup {"null_promises"}
             /\ halted' \in UBOutcomes
             /\ UNCHANGED handles_
        ELSE IF k \in DOMAIN handles_
        THEN /\ handles_' = Erase(handles_, k)
             /\ UNCHANGED <<fault, halted>>
        ELSE /\ fault' = fault \cup {"not_found"}
             /\ halted' \in UBOutcomes
             /\ UNCHANGED handles_
  /\ UNCHANGED <<nonce_, platform, callers, bindings_, reverse_bindings_, promises_, next_id_, dpc,
                 scripts, evals, outcall, incall, cleaner, thrown, budget>>


\* an asynchronous handler finishes on its own thread; the wrapper's
\* continuations dispatch the reply and the cleanup, and a drain coroutine
\* suspended on this handle is resumed
HandlerComplete(id, ok) ==
  /\ ~halted
  /\ incall[id].phase = "running"
  /\ incall' = [incall EXCEPT ![id].phase = "done",
                              ![id].outcome = IF ok THEN "ok" ELSE "raised"]
  /\ queue' = WrapperDone(queue, incall[id].id, incall[id].h, incall[id].args, ok)
  /\ IF cleaner.awaiting = BindKey(incall[id].id) /\ cleaner.inst = id
     THEN IF cleaner.destroyed
          THEN \* the coroutine resumes inside a destroyed PromisesCleaner
               /\ cleaner' = [cleaner EXCEPT !.awaiting = NoKey, !.inst = 0,
                                             !.st = "dead"]
               /\ fault' = fault \cup {"use_after_free"}
               /\ halted' \in UBOutcomes
          ELSE /\ cleaner' = [cleaner EXCEPT !.awaiting = NoKey, !.inst = 0,
                                             !.todo = @ \ {BindKey(incall[id].id)}]
               /\ UNCHANGED <<fault, halted>>
     ELSE UNCHANGED <<cleaner, fault, halted>>
  /\ UNCHANGED <<nonce_, platform, callers, bridge, next_id_, dpc, scripts, evals, outcall, thrown, budget>>

(* ---------------------------- outbound calls --------------------------- *)
\* Call, "if (!promises_) throw": the check made after the Dispatch
CallThrows == IF promises_ THEN "none" ELSE "CANCELED"

\* Call: the registration task is dispatched whatever promises_ is
CallDispatch(q, t) == Dispatch(q, t)

\* Webview::Call<RETURN>(name, args...)
Call(name, ret) ==
  /\ ~halted
  /\ Take("calls")
  /\ LET id == next_id_ + 1
     IN /\ next_id_' = id
        /\ outcall' = [outcall EXCEPT ![id] =
                         [NoOut EXCEPT !.st = "pending", !.ret = ret,
                                       !.thrown = CallThrows]]
        /\ queue' = CallDispatch(queue, Task("register", id, name, FALSE, "none"))
        /\ thrown' = Thrown("Call", name, CallThrows)
  /\ UNCHANGED <<nonce_, platform, callers, bridge, dpc, scripts, evals, incall, cleaner,
                 fault, halted>>

\* Call on thread t, "++next_id_" on a plain std::size_t: the load
CallLoad(t) ==
  /\ ~halted
  /\ callers[t] = NoLoad
  /\ Take("calls")
  /\ callers' = [callers EXCEPT ![t] = next_id_]
  /\ UNCHANGED <<nonce_, platform, bridge, next_id_, queue, dpc, scripts, evals, outcall,
                 incall, cleaner, thrown, fault, halted>>

\* Call on thread t: the store of the incremented value, and the rest of Call
\* under the id it produced
CallStore(t, name, ret) ==
  /\ ~halted
  /\ callers[t] # NoLoad
  /\ LET id == callers[t] + 1
     IN /\ next_id_' = id
        /\ outcall' = [outcall EXCEPT ![id] =
                         [NoOut EXCEPT !.st = "pending", !.ret = ret,
                                       !.thrown = CallThrows]]
        /\ queue' = CallDispatch(queue, Task("register", id, name, FALSE, "none"))
        /\ thrown' = Thrown("Call", name, CallThrows)
  /\ callers' = [callers EXCEPT ![t] = NoLoad]
  /\ UNCHANGED <<nonce_, platform, bridge, dpc, scripts, evals, incall, cleaner, budget,
                 fault, halted>>

\* the registration task of Call
RunRegister ==
  /\ TaskReady("register")
  /\ queue' = Tail(queue)
  /\ LET t == Head(queue)
     IN IF outcall[t.id].done
        THEN UNCHANGED <<reverse_bindings_, handles_, evals, fault, halted>>
        ELSE /\ reverse_bindings_' = reverse_bindings_ \cup {t.id}
             /\ IF ~promises_
                THEN /\ fault' = fault \cup {"null_promises"}
                     /\ halted' \in UBOutcomes
                     /\ evals' = IF halted' THEN evals
                                 ELSE Eval(evals, Ev("reverseCall", t.id, t.h, FALSE, "none"))
                     /\ UNCHANGED handles_
                ELSE IF CallKey(t.id) \in DOMAIN handles_
                THEN /\ fault' = fault \cup {"not_emplaced"}
                     /\ halted' \in UBOutcomes
                     /\ evals' = IF halted' THEN evals
                                 ELSE Eval(evals, Ev("reverseCall", t.id, t.h, FALSE, "none"))
                     /\ UNCHANGED handles_
                ELSE /\ handles_' = Emplace(handles_, CallKey(t.id),
                                            [reject |-> TRUE, inst |-> t.id])
                     /\ evals' = Eval(evals, Ev("reverseCall", t.id, t.h, FALSE, "none"))
                     /\ UNCHANGED <<fault, halted>>
  /\ UNCHANGED <<nonce_, platform, callers, bindings_, promises_, next_id_, dpc, scripts, outcall,
                 incall, cleaner, thrown, budget>>

\* the reverse binding of Call, run as the task OnMessage dispatched
RunMakeReply ==
  /\ TaskReady("make_reply")
  /\ LET t == Head(queue)
         q == Tail(queue)
         o == outcall[t.id]
     IN IF t.err
        THEN /\ outcall' = [outcall EXCEPT ![t.id] = Settle(o, "rejected", "REJECT", t.res)]
             /\ queue' = q
             /\ UNCHANGED <<fault, halted>>
        ELSE IF o.ret = "int" /\ ~ParseInt(t.res).ok
        THEN \* js::Parse<RETURN> throws out of the dispatched task
             /\ queue' = q
             /\ fault' = fault \cup {"parse_error"}
             /\ halted' \in UBOutcomes
             /\ UNCHANGED outcall
        ELSE /\ outcall' = [outcall EXCEPT ![t.id] =
                              Settle(o, "resolved", "none",
                                     IF o.ret = "void" THEN "undefined"
                                     ELSE Stringify(ParseInt(t.res).v))]
             \* the continuation of Call dispatches the cleanup
             /\ queue' = IF o.st = "pending"
                         THEN Dispatch(q, Task("cleanup_call", t.id, "none", FALSE, "none"))
                         ELSE q
             /\ UNCHANGED <<fault, halted>>
  /\ UNCHANGED <<nonce_, platform, callers, bridge, next_id_, dpc, scripts, evals, incall, cleaner,
                 thrown, budget>>

\* the cleanup task of Call: erase "call_" + id
RunCleanupCall ==
  /\ TaskReady("cleanup_call")
  /\ queue' = Tail(queue)
  /\ LET id == Head(queue).id
     IN IF ~promises_
        THEN /\ fault' = fault \cup {"null_promises"}
             /\ halted' \in UBOutcomes
             /\ UNCHANGED <<handles_, outcall>>
        ELSE /\ outcall' = [outcall EXCEPT ![id].done = TRUE]
             /\ IF CallKey(id) \in DOMAIN handles_
                THEN /\ handles_' = Erase(handles_, CallKey(id))
                     /\ UNCHANGED <<fault, halted>>
                ELSE /\ fault' = fault \cup {"not_found"}
                     /\ halted' \in UBOutcomes
                     /\ UNCHANGED handles_
  /\ UNCHANGED <<nonce_, platform, callers, bindings_, reverse_bindings_, promises_, next_id_, dpc,
                 scripts, evals, incall, cleaner, thrown, budget>>

(* --------------------------- shutdown draining ------------------------- *)
\* Webview::CleanPromises: the table moves into a PromisesCleaner, whose
\* constructor starts the drain coroutine
CleanPromises ==
  /\ ThreadFree
  /\ promises_
  /\ promises_' = FALSE
  /\ cleaner' = [NoCleaner EXCEPT !.st = "draining", !.todo = DOMAIN handles_]
  /\ dpc' = "teardown"
  /\ UNCHANGED <<nonce_, platform, callers, bindings_, reverse_bindings_, handles_, next_id_, queue,
                 scripts, evals, outcall, incall, thrown, budget, fault, halted>>

\* Promises::Cleaner::Reject: only a handle that owns a reject capability
CleanerReject(o, c) ==
  IF c.reject THEN Settle(o, "rejected", "CANCELED", "Webview is terminating") ELSE o

\* one turn of the drain loop: Reject the handle, then co_await it
DrainStep ==
  /\ ~halted
  /\ cleaner.st = "draining"
  /\ cleaner.awaiting = NoKey
  /\ cleaner.todo # {}
  /\ IF cleaner.destroyed
     THEN \* the loop runs on over a released table
          /\ cleaner' = [cleaner EXCEPT !.st = "dead"]
          /\ fault' = fault \cup {"use_after_free"}
          /\ halted' \in UBOutcomes
          /\ UNCHANGED outcall
     ELSE \E k \in cleaner.todo :
          /\ outcall' = IF k[1] = "call"
                        THEN [outcall EXCEPT ![k[2]] = CleanerReject(@, handles_[k])]
                        ELSE outcall
          /\ cleaner' = IF PromiseDone(k, outcall', incall)
                        THEN [cleaner EXCEPT !.todo = @ \ {k}]
                        ELSE [cleaner EXCEPT !.awaiting = k, !.joining = TRUE,
                                             !.inst = handles_[k].inst]
          /\ UNCHANGED <<fault, halted>>
  /\ UNCHANGED <<nonce_, platform, callers, bridge, next_id_, queue, dpc, scripts, evals, incall,
                 thrown, budget>>

\* a coroutine that returns without setting done_
DrainFinishSilent ==
  /\ ~halted
  /\ cleaner.st = "draining"
  /\ cleaner.awaiting = NoKey
  /\ cleaner.todo = {}
  /\ cleaner' = [cleaner EXCEPT !.st = "finished", !.joining = TRUE]
  /\ UNCHANGED <<nonce_, platform, callers, bridge, next_id_, queue, dpc, scripts, evals, outcall,
                 incall, thrown, budget, fault, halted>>

\* the coroutine returns: ~Done sets done_ and notifies
DrainFinish ==
  /\ ~halted
  /\ cleaner.st = "draining"
  /\ cleaner.awaiting = NoKey
  /\ cleaner.todo = {}
  /\ IF cleaner.destroyed
     THEN /\ cleaner' = [cleaner EXCEPT !.st = "dead"]
          /\ fault' = fault \cup {"use_after_free"}
          /\ halted' \in UBOutcomes
     ELSE /\ cleaner' = [cleaner EXCEPT !.st = "finished", !.done_ = TRUE,
                                        !.joining = TRUE]
          /\ UNCHANGED <<fault, halted>>
  /\ UNCHANGED <<nonce_, platform, callers, bridge, next_id_, queue, dpc, scripts, evals, outcall,
                 incall, thrown, budget>>

\* ~PromisesCleaner leaves its wait; the table is released with the object
JoinReturns ==
  /\ dpc' = "idle"
  /\ cleaner' = [cleaner EXCEPT !.destroyed = TRUE]
  /\ handles_' = EmptyMap
  /\ UNCHANGED <<nonce_, platform, callers, bindings_, reverse_bindings_, promises_, next_id_, queue,
                 scripts, evals, outcall, incall, thrown, budget>>

\* ~PromisesCleaner: done_ is set, or the wait is left after notify_all
Join ==
  /\ ~halted
  /\ dpc = "teardown"
  /\ cleaner.joining
  /\ cleaner.done_
  /\ JoinReturns
  /\ UNCHANGED <<fault, halted>>

\* ~PromisesCleaner: cv_.wait(lock) is guarded by "if", not by a loop, and a
\* condition variable may wake with no notification
JoinSpurious ==
  /\ ~halted
  /\ dpc = "teardown"
  /\ cleaner.joining
  /\ ~cleaner.done_
  /\ JoinReturns
  /\ fault' = fault \cup {"join_not_done"}
  /\ halted' \in UBOutcomes


(* ------------------------- user scripts, Bind, Unbind ------------------ *)
Script(id, kind, names) == [id |-> id, kind |-> kind, names |-> names]

\* a registration script built from the registry as it was before the call
CreateBindScriptStale(b) == {n \in Names : bindings_[n] # NoBinding}

\* CreateBindScript: the names of bindings_
CreateBindScript(b) == {n \in Names : b[n] # NoBinding}

\* a comparison that takes every script for the one looked for
AreUserScriptsEqualAll(a, b) == TRUE

\* Win32EdgeEngine::AreUserScriptsEqual: the engine-assigned ids
AreUserScriptsEqual(a, b) == a.id = b.id

ScriptIds(list) == {list[i].id : i \in 1..Len(list)}

MarkerTask == Task("marker", 0, "none", FALSE, "none")

\* AddUserScript / ReplaceUserScript up to the first AddUserScriptImpl, which
\* pumps the run loop (DepleteRunLoopEventQueue) until the engine has
\* answered with the script id
BeginScripts(op, name, kind, code, replace) ==
  /\ rep' = [op |-> op, name |-> name, i |-> IF replace THEN 1 ELSE 0, ptr |-> 0,
             kind |-> kind, code |-> code]
  /\ engine' = IF replace
               THEN [engine EXCEPT !.ids = @ \ ScriptIds(user_scripts_)]
               ELSE engine
  /\ queue' = Dispatch(queue, MarkerTask)
  /\ dpc' = "replace"
  /\ UNCHANGED <<user_scripts_, bind_script_>>

\* a test that never sees the registration script
HasBindScriptNever == FALSE

\* ReplaceBindScript, "if (bind_script_)"
HasBindScript == bind_script_ # 0

\* ReplaceBindScript
ReplaceBindScript(op, name, b) ==
  BeginScripts(op, name, "bind", CreateBindScript(b), HasBindScript)

\* an insertion that overwrites an existing entry
BindAssign(b, name, h) == [b EXCEPT ![name] = h]

\* bindings_.emplace(name, binding): an existing entry is kept
BindEmplace(b, name, h) ==
  IF b[name] # NoBinding THEN b ELSE [b EXCEPT ![name] = h]

\* a duplicate branch that throws only after ReplaceBindScript
BindDuplicateLate(name) ==
  /\ ReplaceBindScript("Bind", name, bindings_)
  /\ thrown' = Thrown("Bind", name, "DUPLICATE")

\* Bind, the duplicate branch: the throw comes before ReplaceBindScript
BindDuplicate(name) ==
  /\ thrown' = Thrown("Bind", name, "DUPLICATE")
  /\ UNCHANGED <<queue, dpc, scripts>>

\* Webview::Bind(name, promise)
Bind(name, h) ==
  /\ ThreadFree
  /\ Take("binds")
  /\ bindings_' = BindEmplace(bindings_, name, h)
  /\ IF bindings_[name] # NoBinding
     THEN BindDuplicate(name)
     ELSE /\ ReplaceBindScript("Bind", name, bindings_')
          /\ thrown' = Thrown("Bind", name, "none")
  /\ UNCHANGED <<nonce_, platform, callers, reverse_bindings_, promises_, handles_, next_id_, evals,
                 outcall, incall, cleaner, fault, halted>>

\* bindings_.erase(name)
BindErase(b, name) == [b EXCEPT ![name] = NoBinding]

\* a not-found branch that throws only after ReplaceBindScript
UnbindMissingLate(name) ==
  /\ ReplaceBindScript("Unbind", name, bindings_)
  /\ thrown' = Thrown("Unbind", name, "NOT_FOUND")

\* Unbind, nothing erased: the throw comes before ReplaceBindScript
UnbindMissing(name) ==
  /\ thrown' = Thrown("Unbind", name, "NOT_FOUND")
  /\ UNCHANGED <<queue, dpc, scripts>>

\* Webview::Unbind(name)
Unbind(name) ==
  /\ ThreadFree
  /\ Take("binds")
  /\ bindings_' = BindErase(bindings_, name)
  /\ IF bindings_[name] = NoBinding
     THEN UnbindMissing(name)
     ELSE /\ ReplaceBindScript("Unbind", name, bindings_')
          /\ thrown' = Thrown("Unbind", name, "none")
  /\ UNCHANGED <<nonce_, platform, callers, reverse_bindings_, promises_, handles_, next_id_, evals,
                 outcall, incall, cleaner, fault, halted>>

\* Webview::Init(js)
InitScript ==
  /\ ThreadFree
  /\ Take("binds")
  /\ BeginScripts("Init", "none", "user", {}, FALSE)
  /\ thrown' = Thrown("Init", "none", "none")
  /\ UNCHANGED <<nonce_, platform, callers, bridge, next_id_, evals, outcall, incall, cleaner,
                 fault, halted>>

\* the end of Bind / Unbind / Init, after the last script is in place
EndScripts ==
  /\ evals' = CASE rep.op = "Bind" -> Eval(evals, Ev("onBind", 0, rep.name, FALSE, "none"))
                [] rep.op = "Unbind" -> Eval(evals, Ev("onUnbind", 0, rep.name, FALSE, "none"))
                [] OTHER -> evals
  /\ rep' = NoRep
  /\ dpc' = "idle"

\* the marker of DepleteRunLoopEventQueue is reached: AddUserScriptImpl
\* returns the script under its new id, and the operation goes on
RunMarker ==
  /\ TaskReady("marker")
  /\ dpc = "replace"
  /\ LET n == engine.next
         q == Tail(queue)
     IN /\ engine' = [ids |-> engine.ids \cup {n}, next |-> n + 1]
        /\ IF rep.i = 0
           THEN \* AddUserScript: emplace at the end
                /\ user_scripts_' = Append(user_scripts_, Script(n, rep.kind, rep.code))
                /\ bind_script_' = IF rep.kind = "bind" THEN Len(user_scripts_) + 1
                                   ELSE bind_script_
                /\ queue' = q
                /\ EndScripts
           ELSE \* ReplaceUserScript: old_script is the list element itself
                LET s == user_scripts_[rep.i]
                    is_old == AreUserScriptsEqual(s, user_scripts_[bind_script_])
                    ptr == IF is_old THEN rep.i ELSE rep.ptr
                IN /\ user_scripts_' =
                        [user_scripts_ EXCEPT ![rep.i] =
                           IF is_old THEN Script(n, rep.kind, rep.code)
                           ELSE Script(n, s.kind, s.names)]
                   /\ IF rep.i < Len(user_scripts_)
                      THEN /\ rep' = [rep EXCEPT !.i = @ + 1, !.ptr = ptr]
                           /\ queue' = Dispatch(q, MarkerTask)
                           /\ UNCHANGED <<bind_script_, evals, dpc>>
                      ELSE /\ bind_script_' = ptr
                           /\ queue' = q
                           /\ EndScripts
  /\ UNCHANGED <<nonce_, platform, callers, bridge, next_id_, outcall, incall, cleaner, thrown,
                 budget, fault, halted>>

(* ------------------- Bind / Unbind from another thread ----------------- *)
\* Bind, Unbind and Call have one body whatever thread calls them.  The
\* engine (WebView2) belongs to the dispatch thread; what its methods do when
\* called from another thread is not in the repository: the call is refused
\* (no script id, nothing evaluated) or the process is lost
OffThread ==
  /\ fault' = fault \cup {"off_thread"}
  /\ halted' \in UBOutcomes

\* ReplaceBindScript on a thread the engine refuses: AddUserScript emplaces,
\* ReplaceUserScript assigns every element, each with the id it did not get
ReplaceBindScriptOff(b) ==
  IF bind_script_ = 0
  THEN /\ user_scripts_' = Append(user_scripts_, Script(0, "bind", CreateBindScript(b)))
       /\ bind_script_' = Len(user_scripts_) + 1
  ELSE /\ user_scripts_' =
            [i \in 1..Len(user_scripts_) |->
               IF i = bind_script_ THEN Script(0, "bind", CreateBindScript(b))
               ELSE Script(0, user_scripts_[i].kind, user_scripts_[i].names)]
       /\ UNCHANGED bind_script_

\* Webview::Bind(name, promise) called on thread t while the loop runs
BindOn(t, name, h) ==
  /\ ~halted
  /\ callers[t] = NoLoad
  /\ Take("binds")
  /\ bindings_' = BindEmplace(bindings_, name, h)
  /\ IF bindings_[name] # NoBinding
     THEN /\ thrown' = Thrown("Bind", name, "DUPLICATE")
          /\ UNCHANGED <<user_scripts_, bind_script_, fault, halted>>
     ELSE /\ ReplaceBindScriptOff(bindings_')
          /\ thrown' = Thrown("Bind", name, "none")
          /\ OffThread
  /\ UNCHANGED <<nonce_, platform, callers, reverse_bindings_, promises_, handles_, next_id_,
                 queue, dpc, rep, engine, evals, outcall, incall, cleaner>>

\* Webview::Unbind(name) called on thread t while the loop runs
UnbindOn(t, name) ==
  /\ ~halted
  /\ callers[t] = NoLoad
  /\ Take("binds")
  /\ bindings_' = BindErase(bindings_, name)
  /\ IF bindings_[name] = NoBinding
     THEN /\ thrown' = Thrown("Unbind", name, "NOT_FOUND")
          /\ UNCHANGED <<user_scripts_, bind_script_, fault, halted>>
     ELSE /\ ReplaceBindScriptOff(bindings_')
          /\ thrown' = Thrown("Unbind", name, "none")
          /\ OffThread
  /\ UNCHANGED <<nonce_, platform, callers, reverse_bindings_, promises_, handles_, next_id_,
                 queue, dpc, rep, engine, evals, outcall, incall, cleaner>>

(* --------------------------- Webview2ComHandler ------------------------ *)
\* the HRESULTs the code tells apart
AttemptResults == {"S_OK", "ERROR_INVALID_STATE", "E_FAIL"}
EnvironmentResults == {"S_OK", "E_FAIL"}
ControllerResults == {"S_OK", "ERROR_INVALID_STATE", "E_ABORT", "E_FAIL"}

\* a guard that lets one attempt too many through
MayAttemptOnceMore(c) == c.attempts_ <= max_attempts_

\* TryCreateEnvironment, "if (attempts_ < max_attempts_)"
MayAttempt(c) == c.attempts_ < max_attempts_

\* what the handler has seen: its own attempts and the completions
Logged(c, what, res) == [c EXCEPT !.log = Append(@, <<what, res>>)]

\* Webview2ComHandler::TryCreateEnvironment: the states it may leave the
\* handler in, one for each run of results attempt_handler_ may return
RECURSIVE TryCreateEnvironment(_)
TryCreateEnvironment(c) ==
  IF MayAttempt(c)
  THEN LET c1 == [c EXCEPT !.attempts_ = @ + 1, !.calls = @ + 1]
       IN {[Logged(c1, "attempt", "S_OK") EXCEPT !.pending = "environment"],
           Logged(c1, "attempt", "ERROR_INVALID_STATE")}
          \cup TryCreateEnvironment(Logged(c1, "attempt", "E_FAIL"))
  ELSE {[c EXCEPT !.gave_up = @ + 1]}

\* Webview2ComHandler::HandleWindow, called once by Embed
HandleWindow ==
  /\ ~com_handler_.window_
  /\ com_handler_' \in TryCreateEnvironment([com_handler_ EXCEPT !.window_ = TRUE])
  /\ UNCHANGED <<webview, windows, pump>>

\* Invoke(HRESULT, ICoreWebView2Environment*): the environment completion.
\* CreateCoreWebView2Controller either starts the controller or fails at once
InvokeEnvironment(res) ==
  /\ com_handler_.pending = "environment"
  /\ LET c == [Logged(com_handler_, "environment", res) EXCEPT !.pending = "none"]
     IN IF res = "S_OK"
        THEN \E started \in BOOLEAN :
               com_handler_' = [c EXCEPT !.pending = IF started THEN "controller"
                                                     ELSE "none"]
        ELSE com_handler_' \in TryCreateEnvironment(c)
  /\ UNCHANGED <<webview, windows, pump>>

\* Invoke(HRESULT, ICoreWebView2Controller*): the controller completion
InvokeController(res) ==
  /\ com_handler_.pending = "controller"
  /\ LET c == [Logged(com_handler_, "controller", res) EXCEPT !.pending = "none"]
     IN CASE res = "S_OK" -> com_handler_' = [c EXCEPT !.ready = @ + 1]
          [] res \in {"ERROR_INVALID_STATE", "E_ABORT"} -> com_handler_' = c
          [] OTHER -> com_handler_' \in TryCreateEnvironment(c)
  /\ UNCHANGED <<webview, windows, pump>>

(* ----------------------------- window count --------------------------- *)
\* ++count and --count on std::atomic_uint
Inc(c) == (c + 1) % UintMod
Dec(c) == (c + UintMod - 1) % UintMod

\* a test that forgets skip_termination
ShouldTerminateAlways(r, skip) == r <= 0

\* OnWindowDestroyed, "(DecWindowCount() <= 0) && !skip_termination"
ShouldTerminate(r, skip) == r <= 0 /\ ~skip

\* Webview::OnWindowCreated for window w: IncWindowCount
OnWindowCreated(w) ==
  /\ windows.of[w].pc = "none"
  /\ windows' = [windows EXCEPT !.s__ref_count = Inc(@), !.incs = @ + 1,
                                !.of[w].pc = "open"]
  /\ UNCHANGED <<webview, com_handler_, pump>>

\* the rest of OnWindowDestroyed once DecWindowCount has returned r
Destroyed(ws, w, r, skip) ==
  [ws EXCEPT !.of[w] = [pc |-> "closed", skip |-> skip,
                        terminated |-> ShouldTerminate(r, skip)],
             !.terminate = IF ShouldTerminate(r, skip) THEN @ + 1 ELSE @,
             !.on_terminate = @ + 1]

\* Webview::OnWindowDestroyed(skip) for window w, up to the test of
\* DecWindowCount, "if (count > 0)": an atomic load
DestroyTest(w, skip) ==
  /\ windows.of[w].pc = "open"
  /\ windows' = IF windows.s__ref_count > 0
                THEN [windows EXCEPT !.of[w].pc = "dec", !.of[w].skip = skip]
                ELSE Destroyed(windows, w, 0, skip)
  /\ UNCHANGED <<webview, com_handler_, pump>>

\* DecWindowCount, "return --count", and the rest of OnWindowDestroyed
DestroyDec(w) ==
  /\ windows.of[w].pc = "dec"
  /\ LET r == Dec(windows.s__ref_count)
     IN windows' = Destroyed([windows EXCEPT !.s__ref_count = r, !.decs = @ + 1],
                             w, r, windows.of[w].skip)
  /\ UNCHANGED <<webview, com_handler_, pump>>

\* the calls the threads have made or are inside of
CountOps ==
  windows.incs + windows.decs
    + Cardinality({t \in Threads : windows.reg[t] # "idle"})

\* Webview::IncWindowCount called on thread t
IncWindowCount(t) ==
  /\ windows.reg[t] = "idle"
  /\ CountOps < CountRunOps
  /\ windows' = [windows EXCEPT !.s__ref_count = Inc(@), !.incs = @ + 1]
  /\ UNCHANGED <<webview, com_handler_, pump>>

\* Webview::DecWindowCount on thread t, "if (count > 0)": the load and the
\* test; with the count at 0 the call returns 0
DecTest(t) ==
  /\ windows.reg[t] = "idle"
  /\ CountOps < CountRunOps
  /\ windows' = IF windows.s__ref_count > 0
                THEN [windows EXCEPT !.reg[t] = "dec"]
                ELSE [windows EXCEPT !.decs = @ + 1]
  /\ UNCHANGED <<webview, com_handler_, pump>>

\* DecWindowCount on thread t, "return --count"
DecStore(t) ==
  /\ windows.reg[t] = "dec"
  /\ windows' = [windows EXCEPT !.s__ref_count = Dec(@), !.decs = @ + 1,
                                !.reg[t] = "idle"]
  /\ UNCHANGED <<webview, com_handler_, pump>>

(* ------------------- message window, DepleteRunLoopEventQueue ---------- *)
\* Win32EdgeEngine::Dispatch: PostMessageW(message_window_, WM_APP, ...),
\* its result ignored; a message the window does not take is never run
Post(p, m) ==
  IF p.message_window_ THEN [p EXCEPT !.q = Append(@, m)]
  ELSE [p EXCEPT !.lost = @ \cup {m}]

Marker == 0

\* Dispatch(f) by the application, from any thread
DispatchTask ==
  /\ pump.next <= PumpRunTasks
  /\ pump' = Post([pump EXCEPT !.next = @ + 1], pump.next)
  /\ UNCHANGED <<webview, com_handler_, windows>>

\* Win32EdgeEngine::Terminate: PostQuitMessage(0)
Terminate ==
  /\ ~pump.quit
  /\ pump' = [pump EXCEPT !.quit = TRUE]
  /\ UNCHANGED <<webview, com_handler_, windows>>

\* WM_DESTROY reaches the message window: message_window_ = nullptr, and the
\* messages posted to it are gone with it
MessageWindowDestroyed ==
  /\ pump.message_window_
  /\ pump.pc # "in"
  /\ pump' = [pump EXCEPT !.message_window_ = FALSE, !.q = <<>>,
                          !.lost = @ \cup {pump.q[i] : i \in 1..Len(pump.q)}]
  /\ UNCHANGED <<webview, com_handler_, windows>>

\* Run: the loop takes a task and runs it
RunTask ==
  /\ pump.pc # "in"
  /\ pump.q # <<>>
  /\ pump' = [pump EXCEPT !.q = Tail(@), !.ran = Append(@, Head(pump.q))]
  /\ UNCHANGED <<webview, com_handler_, windows>>

\* DepleteRunLoopEventQueue up to its loop: "bool done{}" and the Dispatch
\* of the task that sets it
DepleteBegin ==
  /\ pump.pc # "in"
  /\ pump' = Post([pump EXCEPT !.pc = "in", !.done = FALSE,
                               !.before = 1..(pump.next - 1)], Marker)
  /\ UNCHANGED <<webview, com_handler_, windows>>

\* one turn of "while (!done)": GetMessageW returns the next posted message,
\* which is dispatched, or WM_QUIT when nothing is posted and a quit is
\* pending; with neither it blocks
GetMessage ==
  /\ pump.pc = "in"
  /\ ~pump.done
  /\ IF pump.q # <<>>
     THEN pump' = IF Head(pump.q) = Marker
                  THEN [pump EXCEPT !.q = Tail(@), !.done = TRUE]
                  ELSE [pump EXCEPT !.q = Tail(@), !.ran = Append(@, Head(pump.q))]
     ELSE /\ pump.quit
          /\ pump' = [pump EXCEPT !.quit = FALSE]
  /\ UNCHANGED <<webview, com_handler_, windows>>

\* "while (!done)" ends and DepleteRunLoopEventQueue returns
DepleteReturn ==
  /\ pump.pc = "in"
  /\ pump.done
  /\ pump' = [pump EXCEPT !.pc = "returned"]
  /\ UNCHANGED <<webview, com_handler_, windows>>

(* ------------------------------ specifications ------------------------ *)
Teardown ==
  \/ CleanPromises
  \/ DrainStep
  \/ DrainFinish
  \/ Join

\* a window whose application binds one function and calls into the page,
\* and whose page calls and answers
Init == InitWith(Budget(MixEach, MixEach, MixEach, MixEach, MixEach, MixTotal))

Next ==
  \/ \E m \in PairMsgs : FreshIn(m) /\ OnMessage(m)
  \/ \E m \in ReverseMsgs \cup MalformedMsgs : OnMessage(m)
  \/ RunBindCall
  \/ RunReply
  \/ RunCleanupBind
  \/ \E id \in InIds, ok \in BOOLEAN : HandlerComplete(id, ok)
  \/ \E ret \in RetTypes : Call("mul", ret)
  \/ RunRegister
  \/ RunMakeReply
  \/ RunCleanupCall
  \/ Teardown
  \/ JoinSpurious
  \/ Bind("add", "h_add")
  \/ RunMarker

Spec == Init /\ [][Next]_vars

\* a window with no binding: native calls into the page, replies, teardown
InitCall ==
  InitWith(Budget(CallRunCalls, 0, CallRunMsgs, CallRunForeign, 0,
                  CallRunCalls + CallRunMsgs + CallRunForeign))

NextCall ==
  \/ \E m \in ReverseMsgs \cup MalformedMsgs : OnMessage(m)
  \/ \E ret \in RetTypes : Call("mul", ret)
  \/ RunRegister
  \/ RunMakeReply
  \/ RunCleanupCall
  \/ Teardown

SpecCall == InitCall /\ [][NextCall]_vars

\* a window that only serves the page: Bind, inbound calls, teardown
InitBind ==
  InitWith(Budget(0, BindRunIn, BindRunMsgs, 0, BindRunBinds, BindRunTotal))

NextBind ==
  \/ \E m \in PairMsgs : FreshIn(m) /\ OnMessage(m)
  \/ \E m \in MalformedMsgs : OnMessage(m)
  \/ RunBindCall
  \/ RunReply
  \/ RunCleanupBind
  \/ \E id \in InIds, ok \in BOOLEAN : HandlerComplete(id, ok)
  \/ Teardown
  \/ JoinSpurious
  \/ \E n \in Names, h \in Handlers : Bind(n, h)
  \/ RunMarker

SpecBind == InitBind /\ [][NextBind]_vars

\* the serving window under the scheduling the code provides: the message
\* loop runs the posted tasks, the drain coroutine and the join take their
\* steps; when a handler completes is up to the handler.  The page calls
\* through the stubs of the registration script, so only bound names
InitLive == InitWith(Budget(0, LiveIn, 0, 0, LiveBinds, LiveIn + LiveBinds))

LoopStep ==
  \/ RunBindCall
  \/ RunReply
  \/ RunCleanupBind
  \/ RunMarker

NextLive ==
  \/ \E m \in PairMsgs :
       FreshIn(m) /\ bindings_[m.method] # NoBinding /\ OnMessage(m)
  \/ LoopStep
  \/ \E id \in InIds, ok \in BOOLEAN : HandlerComplete(id, ok)
  \/ Teardown
  \/ Bind("add", "h_add")

FairBind ==
  /\ InitLive
  /\ [][NextLive]_vars
  /\ WF_vars(LoopStep)
  /\ WF_vars(DrainStep)
  /\ WF_vars(DrainFinish)
  /\ WF_vars(Join)

\* a window whose application binds, unbinds and adds scripts while the page
\* calls: each script operation pumps the loop, which runs the posted tasks
InitScripts ==
  InitWith(Budget(0, ScriptRunIn, 0, 0, ScriptRunOps, ScriptRunIn + ScriptRunOps))

NextScripts ==
  \/ \E n \in Names : Bind(n, "h_add")
  \/ \E n \in Names : Unbind(n)
  \/ InitScript
  \/ RunMarker
  \/ \E m \in PairMsgs : FreshIn(m) /\ OnMessage(m)
  \/ RunBindCall
  \/ RunReply
  \/ RunCleanupBind
  \/ \E id \in InIds, ok \in BOOLEAN : HandlerComplete(id, ok)

SpecScripts == InitScripts /\ [][NextScripts]_vars

\* a serving window whose page picks the id of each call freely, so that two
\* calls in flight may carry the same id
InitDup == InitWith(Budget(0, DupRunIn, 0, 0, 1, DupRunIn + 1))

NextDup ==
  \/ Bind("add", "h_add")
  \/ RunMarker
  \/ \E m \in PairMsgs :
       m.nonce = nonce_ /\ bindings_[m.method] # NoBinding /\ OnMessage(m)
  \/ RunBindCall
  \/ RunReply
  \/ RunCleanupBind
  \/ \E id \in InIds, ok \in BOOLEAN : HandlerComplete(id, ok)

SpecDup == InitDup /\ [][NextDup]_vars

\* a window whose Call is used from several threads while the message loop
\* runs: the increment of next_id_ is a load and a store with nothing
\* between the threads
InitRace ==
  InitWith(Budget(RaceRunCalls, 0, RaceRunMsgs, 0, 0, RaceRunCalls + RaceRunMsgs))

NextRace ==
  \/ \E t \in Threads : CallLoad(t)
  \/ \E t \in Threads, ret \in RetTypes : CallStore(t, "mul", ret)
  \/ RunRegister
  \/ \E m \in ReverseMsgs : OnMessage(m)
  \/ RunMakeReply
  \/ RunCleanupCall

SpecRace == InitRace /\ [][NextRace]_vars

\* a window that other threads use while its loop runs: Bind, Unbind and
\* Call come from those threads, the page calls what is bound
InitThreads ==
  InitWith(Budget(ThreadRunCalls, ThreadRunIn, 0, 0, ThreadRunOps,
                  ThreadRunCalls + ThreadRunIn + ThreadRunOps))

NextThreads ==
  \/ \E t \in Threads, n \in Names : BindOn(t, n, "h_add")
  \/ \E t \in Threads, n \in Names : UnbindOn(t, n)
  \/ \E t \in Threads : CallLoad(t)
  \/ \E t \in Threads : CallStore(t, "mul", "void")
  \/ RunRegister
  \/ \E m \in PairMsgs :
       FreshIn(m) /\ CheckHeader(m) /\ bindings_[m.method] # NoBinding /\ OnMessage(m)
  \/ RunBindCall
  \/ RunReply
  \/ RunCleanupBind
  \/ \E id \in InIds, ok \in BOOLEAN : HandlerComplete(id, ok)

SpecThreads == InitThreads /\ [][NextThreads]_vars

\* a window whose application calls into the page and whose page answers,
\* up to the teardown
InitAnswer ==
  InitWith(Budget(AnswerRunCalls, 0, AnswerRunMsgs, 0, 0,
                  AnswerRunCalls + AnswerRunMsgs))

NextAnswer ==
  \/ \E ret \in RetTypes : Call("mul", ret)
  \/ RunRegister
  \/ \E m \in ReverseMsgs : OnMessage(m)
  \/ RunMakeReply
  \/ RunCleanupCall
  \/ Teardown

SpecAnswer == InitAnswer /\ [][NextAnswer]_vars

\* a window that binds its functions under either name and serves the calls
\* of the page, with every form of params, up to the teardown
InitServe ==
  InitWith(Budget(0, ServeRunIn, 0, 0, ServeRunBinds, ServeRunIn + ServeRunBinds))

NextServe ==
  \/ \E n \in Names, h \in Handlers : Bind(n, h)
  \/ RunMarker
  \/ \E m \in ForwardMsgs :
       FreshIn(m) /\ bindings_[m.method] # NoBinding /\ OnMessage(m)
  \/ RunBindCall
  \/ RunReply
  \/ RunCleanupBind
  \/ \E id \in InIds, ok \in BOOLEAN : HandlerComplete(id, ok)
  \/ Teardown

SpecServe == InitServe /\ [][NextServe]_vars

\* a window that binds "add", unbinds it and binds it again, to either
\* function, while the page calls it
InitRebind ==
  InitWith(Budget(0, RebindRunIn, 0, 0, RebindRunBinds, RebindRunIn + RebindRunBinds))

NextRebind ==
  \/ \E h \in Handlers : Bind("add", h)
  \/ Unbind("add")
  \/ RunMarker
  \/ \E m \in PairMsgs :
       FreshIn(m) /\ bindings_[m.method] # NoBinding /\ OnMessage(m)
  \/ RunBindCall
  \/ RunReply
  \/ RunCleanupBind
  \/ \E id \in InIds, ok \in BOOLEAN : HandlerComplete(id, ok)

SpecRebind == InitRebind /\ [][NextRebind]_vars

\* the creation of the WebView2 environment and controller, with every run
\* of results the loader and the runtime may give
InitCom == InitWith(Budget(0, 0, 0, 0, 0, 0))

NextCom ==
  \/ HandleWindow
  \/ \E res \in EnvironmentResults : InvokeEnvironment(res)
  \/ \E res \in ControllerResults : InvokeController(res)

SpecCom == InitCom /\ [][NextCom]_vars

\* windows created and destroyed, each on its own thread, each destroyed
\* once
InitWindows == InitWith(Budget(0, 0, 0, 0, 0, 0))

NextWindows ==
  \/ \E w \in Windows : OnWindowCreated(w)
  \/ \E w \in Windows, skip \in BOOLEAN : DestroyTest(w, skip)
  \/ \E w \in Windows : DestroyDec(w)

SpecWindows == InitWindows /\ [][NextWindows]_vars

\* IncWindowCount and DecWindowCount called by two threads in any number and
\* order
InitCount == InitWith(Budget(0, 0, 0, 0, 0, 0))

NextCount ==
  \/ \E t \in Threads : IncWindowCount(t)
  \/ \E t \in Threads : DecTest(t)
  \/ \E t \in Threads : DecStore(t)

SpecCount == InitCount /\ [][NextCount]_vars

\* the message loop: tasks are posted, the loop runs them, the application
\* quits, the message window goes, and DepleteRunLoopEventQueue is called;
\* a message that can be taken is taken
InitPump == InitWith(Budget(0, 0, 0, 0, 0, 0))

NextPump ==
  \/ DispatchTask
  \/ Terminate
  \/ MessageWindowDestroyed
  \/ RunTask
  \/ DepleteBegin
  \/ GetMessage
  \/ DepleteReturn

FairPump ==
  /\ InitPump
  /\ [][NextPump]_vars
  /\ WF_vars(GetMessage)
  /\ WF_vars(DepleteReturn)

(* ------------------------------- properties ---------------------------- *)
\* the onReply evaluations the page has received for inbound call id
Replies(id) == {e \in BagToSet(evals) : e.fn = "onReply" /\ e.id = id}
ReplyCount(id) == BagCardinality([e \in Replies(id) |-> CopiesIn(e, evals)])

\* the reply tasks for inbound call id still waiting in the queue
QueuedReplies(id) ==
  {i \in 1..Len(queue) : queue[i].kind = "reply" /\ queue[i].id = id}

\* nothing is left to run: no task posted, no handler at work, or the
\* process is gone
Quiet ==
  \/ halted
  \/ /\ queue = <<>>
     /\ \A id \in InIds : incall[id].phase \in {"none", "done"}

\* the join leaves its wait and the table is released
TableReleased == dpc = "teardown" /\ dpc' = "idle"

\* the promise behind a handle was rejected with Cancelled
Cancelled(k, out, inc) ==
  IF k[1] = "call"
  THEN out[k[2]].st = "rejected" /\ out[k[2]].err = "CANCELED"
  ELSE inc[handles_[k].inst].outcome = "cancelled"

\* C1: the promise Call returned is settled at most once, and once the
\* shutdown drain has finished no promise returned before shutdown is pending
C1_CallSettlesOnce ==
  \A id \in CallIds :
    /\ outcall[id].settles <= 1
    /\ (outcall[id].st # "none" /\ outcall[id].thrown = "none" /\ cleaner.done_)
         => outcall[id].st # "pending"

\* C2: when nothing is left to run, every accepted inbound call of a bound
\* method has had exactly one onReply, whose error flag is false exactly when
\* the handler completed without raising
C2_ExactlyOneReply ==
  \A id \in InIds :
    (incall[id].phase # "none" /\ Quiet)
      => /\ ReplyCount(id) = 1
         /\ \A e \in Replies(id) : (e.err = FALSE) <=> (incall[id].outcome = "ok")

\* C3: the drain rejects with Cancelled every pending handle it takes up,
\* inbound or outbound, and the table is released only when every handle's
\* computation is complete
C3_DrainCancelsAndAwaits ==
  /\ [][\A k \in DOMAIN handles_ :
          (/\ k \in cleaner.todo
           /\ ~PromiseDone(k, outcall, incall)
           /\ (k \notin cleaner'.todo \/ cleaner'.awaiting = k))
            => Cancelled(k, outcall', incall')]_vars
  /\ [][TableReleased =>
          \A k \in DOMAIN handles_ : PromiseDone(k, outcall, incall)]_vars

\* C4: the join returns only when the drain has processed every handle and
\* set done_
C4_JoinAfterDone ==
  [][TableReleased => (cleaner.done_ /\ cleaner.todo = {})]_vars

C6_CallAfterShutdown ==
  [][(~promises_ /\ next_id_' # next_id_)
       => /\ outcall'[next_id_'].thrown = "CANCELED"
          /\ queue' = queue
          /\ evals' = evals]_vars

\* C7: when the binding lambda starts after shutdown has begun, the handler
\* is not invoked and exactly one error reply "Terminated webview !" is posted
C7_TerminatedReply ==
  [][\A id \in InIds :
       (~promises_ /\ incall[id].phase = "queued" /\ incall'[id].phase # "queued")
         => /\ incall'[id].invoked = 0
            /\ queue' = Append(Tail(queue),
                               ReplyTask(id, TRUE, "Terminated webview !"))
            /\ handles_' = handles_
            /\ ReplyCount(id) = 0 /\ QueuedReplies(id) = {}]_vars

\* an inbound call was turned down after shutdown and its one reply evaluated
C7_Witness ==
  \E id \in InIds :
    /\ incall[id].outcome = "terminated"
    /\ incall[id].invoked = 0
    /\ ReplyCount(id) = 1

\* C8: a message whose nonce is not the session's changes nothing: no task,
\* no reply, no handler, no reverse binding consumed, tables as they were
C8_ForeignNonceIgnored ==
  [][budget'.foreign < budget.foreign
       => UNCHANGED <<bindings_, reverse_bindings_, promises_, handles_, queue,
                      evals, incall, outcall, fault, halted>>]_vars

\* a foreign message has been received by a window with a binding and an
\* outstanding reverse binding
C8_Witness ==
  /\ budget.foreign < MixEach
  /\ bindings_["add"] # NoBinding
  /\ reverse_bindings_ # {}

\* C9: Bind of a name already bound throws DUPLICATE and leaves the registry
\* as it was, and every handler an inbound call runs is the one the registry
\* holds for its method
C9_DuplicateBindKeepsHandler ==
  /\ [][(budget'.binds < budget.binds /\ bindings_[thrown'.name] # NoBinding)
          => (thrown'.error = "DUPLICATE" /\ bindings_' = bindings_)]_vars
  /\ [](\A id \in InIds :
          incall[id].invoked > 0 => incall[id].h = bindings_[incall[id].method])

\* a duplicate Bind was refused and the name's handler has served a call
C9_Witness ==
  /\ thrown.error = "DUPLICATE"
  /\ \E id \in InIds :
       /\ incall[id].method = thrown.name
       /\ incall[id].outcome = "ok"
       /\ ReplyCount(id) = 1

\* C10: Bind of a name already bound leaves the user scripts, the
\* registration script and the engine as they were, and evaluates nothing
C10_DuplicateBindNoScript ==
  [][(budget'.binds < budget.binds /\ bindings_[thrown'.name] # NoBinding)
       => UNCHANGED <<user_scripts_, bind_script_, engine, rep, evals, queue,
                      dpc>>]_vars

\* a duplicate Bind was refused while a registration script was in place
C10_Witness ==
  /\ thrown.error = "DUPLICATE"
  /\ bind_script_ # 0
  /\ user_scripts_[bind_script_].names = {thrown.name}

\* C11: Unbind of a name that is not bound throws NOT_FOUND and leaves the
\* registry, the registration script and the user scripts as they were, and
\* evaluates nothing
C11_UnbindMissingNoChange ==
  [][(budget'.binds < budget.binds /\ thrown'.op = "Unbind"
        /\ bindings_[thrown'.name] = NoBinding)
       => /\ thrown'.error = "NOT_FOUND"
          /\ UNCHANGED <<bindings_, user_scripts_, bind_script_, engine, rep,
                         evals, queue, dpc>>]_vars

\* an Unbind was refused while a registration script with a name was in place
C11_Witness ==
  /\ thrown.op = "Unbind"
  /\ thrown.error = "NOT_FOUND"
  /\ bind_script_ # 0
  /\ user_scripts_[bind_script_].names # {}

\* C12: whenever no Bind or Unbind is in progress, the tracked registration
\* script lists exactly the bound names and is the one the engine injects
C12_BindScriptMatchesRegistry ==
  dpc = "idle" =>
    IF bind_script_ = 0
    THEN \A n \in Names : bindings_[n] = NoBinding
    ELSE /\ user_scripts_[bind_script_].kind = "bind"
         /\ user_scripts_[bind_script_].names =
              {n \in Names : bindings_[n] # NoBinding}
         /\ user_scripts_[bind_script_].id \in engine.ids

\* two names were bound and the first was unbound again
C12_Witness ==
  /\ dpc = "idle"
  /\ thrown.op = "Unbind"
  /\ thrown.error = "none"
  /\ bind_script_ # 0
  /\ user_scripts_[bind_script_].names = {"mul"}

\* a cleanup task is taken from the queue and run
CleanupRuns ==
  /\ queue # <<>>
  /\ Head(queue).kind \in {"cleanup_bind", "cleanup_call"}
  /\ queue' = Tail(queue)

\* the table key a cleanup task removes
CleanupKey(t) == IF t.kind = "cleanup_bind" THEN BindKey(t.id) ELSE CallKey(t.id)

\* C13: every handler that starts inserts a handle of its own under the id
\* of its call; the id never has a handle in the table already
C13_OneHandlePerId ==
  [][\A i \in InIds :
       (incall[i].phase = "queued" /\ incall'[i].invoked > incall[i].invoked)
         => /\ BindKey(incall[i].id) \notin DOMAIN handles_
            /\ BindKey(incall[i].id) \in DOMAIN handles_'
            /\ handles_'[BindKey(incall[i].id)].inst = i]_vars

\* C14: every cleanup task finds the table and its entry in place and erases
\* that entry, so that no entry is removed both by cleanup and by shutdown
C14_CleanupFindsEntry ==
  [][CleanupRuns =>
       /\ promises_
       /\ CleanupKey(Head(queue)) \in DOMAIN handles_
       /\ handles_' = Erase(handles_, CleanupKey(Head(queue)))]_vars

\* the reverse reply of outbound call id has been processed, its cleanup too
ReplyProcessed(id) ==
  /\ outcall[id].st = "resolved" \/ outcall[id].err = "REJECT"
  /\ \A i \in 1..Len(queue) :
       ~(queue[i].kind = "cleanup_call" /\ queue[i].id = id)

\* C15: once the shutdown drain has finished, every reverse binding has
\* been invoked and none is left in reverse_bindings_
C15_NoReverseBindingLeft == cleaner.done_ => reverse_bindings_ = {}

\* C16: once the reverse reply of an outbound call has been processed, with
\* error false or true, the id has neither a reverse binding nor a handle
C16_ReplyRemovesBoth ==
  \A id \in CallIds :
    ReplyProcessed(id) =>
      (id \notin reverse_bindings_ /\ CallKey(id) \notin DOMAIN handles_)

\* C17: a forward call with the session nonce whose method is not bound
\* (the message is spent and no call is accepted) raises nothing out of
\* OnMessage and posts one error reply
C17_UnboundMethodRejected ==
  [][(budget'.ins < budget.ins /\ incall' = incall)
       => /\ fault' = fault
          /\ halted' = halted
          /\ Len(queue') = Len(queue) + 1
          /\ queue'[Len(queue')].kind = "reply"
          /\ queue'[Len(queue')].err = TRUE]_vars

\* C18: when the binding lambda runs with the table alive and params that
\* do not parse, the handler is not invoked, the one task posted is an error
\* reply for the call's id, and no handle is stored for it; from then on the
\* call has exactly one reply, queued or evaluated
C18_BadParamsRejected ==
  /\ [][\A i \in InIds :
          (/\ promises_
           /\ incall[i].args = "bad"
           /\ incall[i].phase = "queued"
           /\ incall'[i].phase # "queued")
            => /\ incall'[i].invoked = 0
               /\ queue' = Append(Tail(queue),
                                  ReplyTask(incall[i].id, TRUE, "exception"))
               /\ handles_' = handles_
               /\ BindKey(incall[i].id) \notin DOMAIN handles_'
               /\ ReplyCount(incall[i].id) = 0
               /\ QueuedReplies(incall[i].id) = {}]_vars
  /\ [](\A i \in InIds :
          incall[i].outcome = "bad_args"
            => /\ incall[i].invoked = 0
               /\ ReplyCount(incall[i].id)
                    + Cardinality(QueuedReplies(incall[i].id)) = 1
               /\ BindKey(incall[i].id) \notin DOMAIN handles_)

\* a call with params that do not parse was turned down and its one reply,
\* an error, evaluated by the page
C18_Witness ==
  \E i \in InIds :
    /\ incall[i].outcome = "bad_args"
    /\ incall[i].invoked = 0
    /\ ReplyCount(incall[i].id) = 1
    /\ \A e \in Replies(incall[i].id) : e.err = TRUE

\* C19: a message that js::Parse<Message> cannot decode raises nothing out
\* of OnMessage and leaves the tables and the queue as they were
C19_MalformedDropped ==
  [][budget'.msgs < budget.msgs
       => /\ fault' = fault
          /\ halted' = halted
          /\ UNCHANGED <<bridge, queue, incall, evals>>]_vars

\* C20: the id a Call takes has not been given to an earlier Call of the
\* window, whichever threads the calls are made on
C20_CallIdsDistinct ==
  [][\A t \in Threads :
       (callers[t] # NoLoad /\ callers'[t] = NoLoad)
         => outcall[callers[t] + 1].st = "none"]_vars

\* the step is the loop's: it runs the task at the head of the queue, or it
\* is OnMessage delivering a message of the page
OnLoop ==
  \/ /\ queue # <<>>
     /\ queue' # queue
     /\ Len(queue') >= Len(queue) - 1
     /\ SubSeq(queue', 1, Len(queue) - 1) = Tail(queue)
  \/ budget'.ins < budget.ins
  \/ budget'.msgs < budget.msgs
  \/ budget'.foreign < budget.foreign

\* C21: the registry, the reverse bindings, the pending-call table and the
\* script list change, and scripts are evaluated, only in steps of the
\* dispatch loop; Bind, Unbind and Call from other threads change none
C21_OnlyLoopMutates ==
  [][(\/ bindings_' # bindings_
      \/ reverse_bindings_' # reverse_bindings_
      \/ handles_' # handles_
      \/ user_scripts_' # user_scripts_
      \/ evals' # evals) => OnLoop]_vars

\* the registration task of an outbound call that has not completed runs
RegisterRuns ==
  /\ queue # <<>>
  /\ Head(queue).kind = "register"
  /\ ~outcall[Head(queue).id].done
  /\ queue' = Tail(queue)

\* C22: a Call that meets the teardown is either registered before the drain
\* and rejected with Cancelled, or fails with Cancelled: its registration
\* task never runs over a released table, and once the drain has finished
\* no call that returned a promise is pending
C22_CallVersusTeardown ==
  /\ [][RegisterRuns => promises_]_vars
  /\ [](\A id \in CallIds :
          (cleaner.done_ /\ outcall[id].st = "pending")
            => outcall[id].thrown = "CANCELED")

\* the drain takes up the handle of inbound call i
DrainTakes(i) ==
  /\ cleaner.awaiting = NoKey
  /\ BindKey(incall[i].id) \in cleaner.todo
  /\ \/ cleaner'.awaiting = BindKey(incall[i].id)
     \/ BindKey(incall[i].id) \notin cleaner'.todo

\* C23: when the drain takes up the handle of a handler that is running, the
\* handler goes on running and its call is settled as Cancelled; when the
\* handler later completes, no reply is posted for the call it served
C23_CancelIsCooperative ==
  /\ [][\A i \in InIds :
          (incall[i].phase = "running" /\ DrainTakes(i))
            => /\ incall'[i].phase = "running"
               /\ incall'[i].outcome = "cancelled"]_vars
  /\ [][\A i \in InIds :
          (/\ cleaner.awaiting = BindKey(incall[i].id)
           /\ incall[i].phase = "running"
           /\ incall'[i].phase = "done")
            => \A j \in 1..Len(queue') :
                 (queue'[j].kind = "reply" /\ queue'[j].id = incall[i].id)
                   => (j <= Len(queue) /\ queue[j] = queue'[j])]_vars

\* ReplaceUserScript re-injects the element its loop has reached
ReplaceStep == rep.i > 0 /\ user_scripts_' # user_scripts_

Notices(fn, name) ==
  BagCardinality([e \in {x \in BagToSet(evals) : x.fn = fn /\ x.name = name}
                    |-> CopiesIn(e, evals)])

\* C25: while Bind or Unbind rewrites the registration script, every other
\* script keeps the id under which the engine holds it, and stays injected;
\* the step that ends the operation evaluates its one notification
C25_OnlyBindScriptRewritten ==
  /\ [][rep.op \in {"Bind", "Unbind"} =>
          \A j \in 1..Len(user_scripts_) :
            user_scripts_[j].kind # "bind"
              => /\ user_scripts_'[j].id = user_scripts_[j].id
                 /\ user_scripts_[j].id \in engine'.ids]_vars
  /\ [][\A n \in Names :
          (rep.op = "Bind" /\ rep.name = n /\ rep'.op = "none")
            => Notices("onBind", n)' = Notices("onBind", n) + 1]_vars
  /\ [][\A n \in Names :
          (rep.op = "Unbind" /\ rep.name = n /\ rep'.op = "none")
            => Notices("onUnbind", n)' = Notices("onUnbind", n) + 1]_vars

\* the loop runs a task other than the marker of the pump
OtherTaskRuns ==
  /\ queue # <<>>
  /\ Head(queue).kind # "marker"
  /\ queue' # queue
  /\ Len(queue') >= Len(queue) - 1
  /\ SubSeq(queue', 1, Len(queue) - 1) = Tail(queue)

\* C29: from the removal of the injected scripts to the end of their
\* re-injection, the loop runs no task but the pump's own marker and
\* delivers no message
C29_ReplaceIsAtomic ==
  [][dpc = "replace" =>
       /\ ~OtherTaskRuns
       /\ budget'.ins = budget.ins]_vars

\* the result the page must see: the sum or the product of the decoded pair
Expected(h, form) ==
  CASE h = "h_add" /\ form = "[2,3]" -> "5"
    [] h = "h_add" /\ form = "[3,4]" -> "7"
    [] h = "h_mul" /\ form = "[2,3]" -> "6"
    [] h = "h_mul" /\ form = "[3,4]" -> "12"
    [] OTHER -> "none"

\* a reply, queued or evaluated, answers a call of the page with that id by
\* the result of the handler bound to the call's method
Answers(id, err, res) ==
  \E i \in InIds :
    /\ incall[i].id = id
    /\ incall[i].h = bindings_[incall[i].method]
    /\ incall[i].outcome = "ok"
    /\ ~err
    /\ res = Expected(incall[i].h, incall[i].args)

\* C26: every successful reply carries the id of a call the page made and
\* the result of the bound handler on the call's decoded params, and every
\* call whose handler returned has such a reply queued or evaluated
C26_ReplyCarriesResult ==
  /\ \A e \in BagToSet(evals) :
       (e.fn = "onReply" /\ ~e.err) => Answers(e.id, e.err, e.res)
  /\ \A j \in 1..Len(queue) :
       (queue[j].kind = "reply" /\ ~queue[j].err)
         => Answers(queue[j].id, queue[j].err, queue[j].res)
  /\ \A i \in InIds :
       incall[i].outcome = "ok"
         => ReplyCount(incall[i].id) + Cardinality(QueuedReplies(incall[i].id)) = 1

\* add(2,3) has been answered with 5 and mul(3,4) with 12, under the ids
\* of the requests
C26_Witness ==
  \E e \in BagToSet(evals), i \in InIds :
    /\ e.fn = "onReply" /\ e.id = incall[i].id /\ ~e.err
    /\ \/ incall[i].h = "h_add" /\ incall[i].args = "[2,3]" /\ e.res = "5"
       \/ incall[i].h = "h_mul" /\ incall[i].args = "[3,4]" /\ e.res = "12"

\* the reverse binding of a pending outbound call runs
MakeReplyRuns ==
  /\ queue # <<>>
  /\ Head(queue).kind = "make_reply"
  /\ outcall[Head(queue).id].st = "pending"
  /\ queue' # queue
  /\ budget' = budget

\* C27: a Call made while the bridge is up takes an id no call had and posts
\* one registration task, which evaluates one reverseCall with that id; the
\* reply error=false resolves the pending promise, Call<int> with "12" to
\* 12, and the reply error=true rejects it with REJECT and the page's text
C27_CallRoundTrip ==
  /\ [][(promises_ /\ next_id_' # next_id_)
          => /\ outcall[next_id_'].st = "none"
             /\ outcall'[next_id_'].thrown = "none"
             /\ queue' = Append(queue, Task("register", next_id_', "mul", FALSE, "none"))
             /\ evals' = evals]_vars
  /\ [][(RegisterRuns /\ promises_)
          => /\ evals' = Eval(evals, Ev("reverseCall", Head(queue).id, "mul", FALSE, "none"))
             /\ Head(queue).id \in reverse_bindings_']_vars
  /\ [][MakeReplyRuns =>
          LET t == Head(queue)
              o == outcall'[t.id]
          IN /\ t.err => (o.st = "rejected" /\ o.err = "REJECT" /\ o.val = t.res)
             /\ (~t.err /\ outcall[t.id].ret = "void")
                  => (o.st = "resolved" /\ o.val = "undefined")
             /\ (~t.err /\ outcall[t.id].ret = "int" /\ t.res = "12")
                  => (o.st = "resolved" /\ o.val = "12")]_vars

\* one Call<int> has been resolved to 12 and another call rejected with the
\* page's message
C27_Witness ==
  \E a, b \in CallIds :
    /\ outcall[a].ret = "int" /\ outcall[a].st = "resolved" /\ outcall[a].val = "12"
    /\ outcall[b].st = "rejected" /\ outcall[b].err = "REJECT" /\ outcall[b].val = "oops"
    /\ \E e \in BagToSet(evals) : e.fn = "reverseCall" /\ e.id = a

\* the handler of inbound call i completes in this step
Completes(i) ==
  /\ incall[i].phase # "done"
  /\ incall'[i].phase = "done"
  /\ incall'[i].outcome \in {"ok", "raised"}

\* the loop runs the task at the head of the queue, of the given kind
HeadRuns(kind) ==
  /\ queue # <<>>
  /\ Head(queue).kind = kind
  /\ queue' = Tail(queue)

\* C28: the step in which a handler completes evaluates nothing and removes
\* no handle: it posts the reply task and the cleanup task; an onReply is
\* evaluated only by a reply task the loop runs, and a handle of an inbound
\* call leaves the table only by a cleanup task the loop runs or with the
\* table itself
C28_ContinuationsOnLoop ==
  /\ [][\A i \in InIds :
          Completes(i)
            => /\ evals' = evals
               /\ DOMAIN handles_ \subseteq DOMAIN handles_'
               /\ Len(queue') >= 2
               /\ queue'[Len(queue') - 1].kind = "reply"
               /\ queue'[Len(queue') - 1].id = incall[i].id
               /\ queue'[Len(queue')].kind = "cleanup_bind"
               /\ queue'[Len(queue')].id = incall[i].id]_vars
  /\ [][(\E e \in BagToSet(evals') :
            e.fn = "onReply" /\ CopiesIn(e, evals') > CopiesIn(e, evals))
          => HeadRuns("reply")]_vars
  /\ [][(\E k \in DOMAIN handles_ : k[1] = "bind" /\ k \notin DOMAIN handles_')
          => (HeadRuns("cleanup_bind") \/ TableReleased)]_vars

\* a handler has completed: its reply and its cleanup wait in the queue,
\* nothing has been evaluated and its handle is still in the table
C28_Witness ==
  \E i \in InIds :
    /\ incall[i].phase = "done"
    /\ incall[i].outcome = "ok"
    /\ BindKey(incall[i].id) \in DOMAIN handles_
    /\ ReplyCount(incall[i].id) = 0
    /\ Len(queue) = 2
    /\ queue[1].kind = "reply" /\ queue[2].kind = "cleanup_bind"

\* the reply of the call with this id is ahead of position j in the queue,
\* or has been evaluated
ReplyAhead(id, j) ==
  \/ ReplyCount(id) >= 1
  \/ \E r \in QueuedReplies(id) : r < j

ReverseSpent == budget'.msgs < budget.msgs
C31_UnknownReplyIgnored ==
  [][ReverseSpent /\ reverse_bindings_' = reverse_bindings_
       => UNCHANGED <<bridge, queue, outcall, evals, fault, halted>>]_vars
\* the one call made was answered and resolved, and a second reply was spent
C31_Witness ==
  /\ next_id_ = 1
  /\ outcall[1].st = "resolved"
  /\ budget.msgs + 2 = AnswerRunMsgs
  /\ queue = <<>>
  /\ fault = {}

\* the loop runs a task that does promises_->handles_: the cleanup of an
\* inbound call, the cleanup of an outbound call, or a registration that is
\* not skipped
TableTaskRuns ==
  \/ HeadRuns("cleanup_bind")
  \/ HeadRuns("cleanup_call")
  \/ RegisterRuns

\* C38: no cleanup task and no registration task is run once CleanPromises
\* has moved promises_ out: every such task finds the pending-call table
C38_NoTaskAfterRelease == [][TableTaskRuns => promises_]_vars

\* C39: a matching reply with error = false settles the promise of its call
\* whatever its result holds: a Call<void> is resolved, a result that is
\* absent or does not deserialize into RETURN yields a rejection, and the
\* reverse binding of the id is gone
C39_BadResultStillSettles ==
  [][\A id \in CallIds :
       (MakeReplyRuns /\ Head(queue).id = id /\ ~Head(queue).err
          /\ outcall[id].st = "pending")
         => /\ outcall'[id].st \in {"resolved", "rejected"}
            /\ outcall[id].ret = "void" => outcall'[id].st = "resolved"
            /\ id \notin reverse_bindings_']_vars

\* the registration task of the call whose cleanup is at the head is still
\* in the queue
RegistrationQueued ==
  \E i \in 1..Len(queue) :
    queue[i].kind = "register" /\ queue[i].id = Head(queue).id

\* C37: the registration task of an outbound call runs before the call's
\* cleanup task: when the loop takes a registration task the flag 'done' of
\* its call is false, so the registration is not skipped, and when it takes
\* a cleanup task the registration of that call is no longer queued
C37_RegistrationBeforeCleanup ==
  [][/\ HeadRuns("register") => ~outcall[Head(queue).id].done
     /\ HeadRuns("cleanup_call") => ~RegistrationQueued]_vars
\* both tasks of call 1 have run, with the table in place
C37_Witness ==
  /\ outcall[1].done
  /\ outcall[1].st = "resolved"
  /\ promises_
  /\ CallKey(1) \notin DOMAIN handles_
  /\ \E e \in BagToSet(evals) : e.fn = "reverseCall" /\ e.id = 1

\* C36: an inbound call OnMessage accepted invokes the handler that was bound
\* under its method when it was accepted, whatever Unbind and Bind did to
\* that name before its task ran, and when nothing is left to run it has had
\* exactly one reply
C36_AcceptedCallSurvivesUnbind ==
  /\ [][\A i \in InIds :
          incall'[i].invoked > incall[i].invoked
            => incall'[i].h = incall[i].bound /\ incall'[i].invoked = 1]_vars
  /\ [](\A i \in InIds :
          (incall[i].phase # "none" /\ Quiet) => ReplyCount(incall[i].id) = 1)
\* the handler of call 1 ran when its name was no longer bound to it, and the
\* call has its reply
C36_Witness ==
  /\ incall[1].invoked = 1
  /\ incall[1].late # incall[1].bound
  /\ incall[1].h = incall[1].bound
  /\ incall[1].outcome = "ok"
  /\ ReplyCount(incall[1].id) = 1
  /\ Quiet

\* the positions of user_scripts_ that hold a registration script
BindScripts == {i \in 1..Len(user_scripts_) : user_scripts_[i].kind = "bind"}

Failed(e) ==
  \/ e[1] \in {"attempt", "environment"} /\ e[2] = "E_FAIL"
  \/ e[1] = "controller" /\ e[2] = "E_FAIL"

\* C32: attempt_handler_ is invoked at most max_attempts_ times in the life
\* of the handler, retries after failed completions included; an attempt that
\* succeeds or returns ERROR_INVALID_STATE is not followed by another attempt
\* in the same TryCreateEnvironment, and a TryCreateEnvironment that finds
\* the attempts exhausted calls cb_(nullptr, nullptr) once and attempts
\* nothing
C32_AttemptsBounded ==
  LET c == com_handler_
  IN /\ c.calls <= max_attempts_
     /\ c.calls = c.attempts_
     /\ \A i \in 1..(Len(c.log) - 1) :
          (c.log[i][1] = "attempt" /\ c.log[i][2] # "E_FAIL")
            => c.log[i + 1][1] # "attempt"
     /\ c.gave_up > 0 => c.attempts_ = max_attempts_
     /\ c.gave_up = IF c.log # <<>> /\ Failed(c.log[Len(c.log)])
                       /\ c.attempts_ = max_attempts_
                    THEN 1 ELSE 0
\* the fifth attempt started the environment, whose completion failed: the
\* handler gave up
C32_Witness ==
  LET c == com_handler_
  IN /\ c.calls = max_attempts_
     /\ c.gave_up = 1
     /\ c.log[Len(c.log)] = <<"environment", "E_FAIL">>
     /\ \E i \in 1..Len(c.log) : c.log[i] = <<"controller", "E_FAIL">>

\* window w leaves OnWindowDestroyed in this step
Closes(w) == windows.of[w].pc # "closed" /\ windows'.of[w].pc = "closed"

\* the windows that exist besides w, a window inside its own
\* OnWindowDestroyed included
OthersOpen(w) == {v \in Windows \ {w} : windows.of[v].pc \in {"open", "dec"}}

\* C34: OnWindowDestroyed(skip) calls Terminate exactly when the count is
\* zero after its decrement and skip is false, and calls on_terminate_ once
\* whichever it is; the count it leaves is the number of windows that still
\* exist, and while another window exists it does not call Terminate
C34_TerminateOnLastWindow ==
  [][\A w \in Windows :
       Closes(w) =>
         /\ windows'.terminate - windows.terminate \in {0, 1}
         /\ (windows'.terminate = windows.terminate + 1)
              <=> (windows'.s__ref_count = 0 /\ ~windows'.of[w].skip)
         /\ windows'.on_terminate = windows.on_terminate + 1
         /\ windows'.s__ref_count = Cardinality(OthersOpen(w))
         /\ OthersOpen(w) # {} => windows'.terminate = windows.terminate]_vars
\* every window is gone: one was destroyed with others open, one was the last
\* and called Terminate, and on_terminate_ ran once for each
C34_Witness ==
  /\ \A w \in Windows : windows.of[w].pc = "closed"
  /\ windows.terminate = 1
  /\ windows.on_terminate = WindowRunWindows
  /\ windows.s__ref_count = 0
  /\ \E w \in Windows : windows.of[w].skip
  /\ \E w \in Windows : ~windows.of[w].skip /\ ~windows.of[w].terminated

\* C35: the window count stays between 0 and the number of increments,
\* whatever IncWindowCount and DecWindowCount calls the threads interleave
C35_CountNeverWraps ==
  /\ windows.s__ref_count >= 0
  /\ windows.s__ref_count <= windows.incs

\* the tasks the loop has run, in the order it ran them
Ran == {pump.ran[i] : i \in 1..Len(pump.ran)}
InOrder == \A i, j \in 1..Len(pump.ran) : i < j => pump.ran[i] < pump.ran[j]

\* C33: DepleteRunLoopEventQueue returns only when every task dispatched
\* before the call has been run, the tasks having run in the order of their
\* dispatch, and every call of it returns, also with a quit pending and also
\* when the message window takes no more posts
C33_DepleteReturns ==
  /\ [](pump.pc = "returned" => (pump.before \subseteq Ran /\ InOrder))
  /\ (pump.pc = "in" ~> pump.pc = "returned")

====
